---- MODULE Spec2Model ----
(***************************************************************************)
(* Model of psu-controller-rs: the SCPI driver (src/src/scpi.rs) and the   *)
(* session, poller and waveform-loop logic of src/src/main.rs.             *)
(*                                                                         *)
(* All callbacks and timer closures run on the single Slint event-loop     *)
(* thread (main.rs:246), so a handler runs until it returns; the only      *)
(* place where the outside world acts during a handler is the blocking     *)
(* read loop of read_serial_response.  pc records that position:           *)
(*   "idle"     no handler is running                                      *)
(*   "reading"  a handler is inside read_serial_response                   *)
(*   "returned" send_command has returned into the handler                 *)
(* Text is a sequence of characters, a received line a sequence of bytes   *)
(* ("CR", "LF" and "SP" stand for \r, \n and the space); the words of a    *)
(* command are kept whole, with '?' always a character of its own.         *)
(* Numbers are kept in thousandths (milli-volts, milli-amps).              *)
(***************************************************************************)
EXTENDS Integers, Sequences, FiniteSets, TLC

\* ------------------------------------------------------------------ bounds
\* Capacity of the modelled OS input buffer of the serial port.
MaxRx == 5
\* Reply lines the device sends in one run.
MaxReplies == 2
\* UI events and timer ticks modelled in one run.
MaxEvents == 3
\* Largest current reading, in mA, a poll reply carries in ModeSpec.
MaxMilliAmp == 2200
\* Bytes a streaming device delivers within one exchange in ReadSpec.
MaxStream == 3
\* Milliseconds by which the clock of ReadSpec moves in one step.
ClockStep == 250

\* ------------------------------------------------------- program constants
CHART_WIDTH == 100
READ_TIMEOUT_MS == 500

None == <<>>
Some(x) == <<x>>
NoPort == "NoPort"
PortIds == {"h1", "h2"}

\* scpi::cmds
IDN == <<"*IDN", "?">>
RESET == <<"*RST">>
UNLOCK == <<"SYST:COMM:RLST", "SP", "LOC">>
SET_VOLT == <<"VOLT">>
SET_CURR == <<"CURR">>
READ_ALL == <<"MEAS:ALL", "?">>
READ_VOLT == <<"MEAS:VOLT", "?">>
READ_CURR == <<"MEAS:CURR", "?">>
READ_OUTP == <<"OUTPut", "?">>
GET_SET_VOLT == <<"SOUR:VOLT:LEV:IMM:AMPL", "?">>
GET_SET_CURR == <<"SOUR:CURR:LEV:IMM:AMPL", "?">>

\* ---------------------------------------------------------- input domains
\* Lines the device answers with (it may answer any of them to any query).
\* "C2","AB" are the two UTF-8 bytes of the stray glyph U+00AB.
Replies == { <<"5", ",", "1", "CR", "LF">>, <<"SP", "1", "LF">>,
             <<"C2", "AB", ",", "x", "LF">> }
\* Texts the user can type into the command box.
UserCmds == { <<"OUTP", "SP", "ON">>, <<"MEAS:VOLT", "?">> }
\* Texts the user can type into a setpoint box.
UserValues == { <<"1">>, <<"x">> }
\* Setpoint pairs of the waveform loop.
LoopValues == { <<"5">>, <<"1", "0">> }

VARIABLES
    status_text, shared_port, p, monitor_timer, loop_timer, loop_state,
    loop_v, is_looping, is_output_on, enable_auto_refresh,
    voltage_reading, current_reading, power_reading, psu_mode,
    active_current_limit, history_v, history_i,
    pc, handler, stage, arg, received_bytes, result, rx, owed, replies, tx, events,
    polling_interval, interval_ms, elapsed, loop_sent

vars == << status_text, shared_port, p, monitor_timer, loop_timer, loop_state,
           loop_v, is_looping, is_output_on, enable_auto_refresh,
           voltage_reading, current_reading, power_reading, psu_mode,
           active_current_limit, history_v, history_i,
           pc, handler, stage, arg, received_bytes, result, rx, owed, replies, tx, events,
           polling_interval, interval_ms, elapsed, loop_sent >>

ui_vars == << is_looping, is_output_on, enable_auto_refresh, voltage_reading,
              current_reading, power_reading, psu_mode, active_current_limit >>
session_vars == << status_text, shared_port, p >>
loop_vars == << loop_timer, loop_state, loop_v, loop_sent >>
poll_vars == << monitor_timer, history_v, history_i, polling_interval, interval_ms >>
read_vars == << received_bytes, result, elapsed >>
wire_vars == << rx, owed, replies >>

\* ------------------------------------------------------------ text helpers
Abs(a) == IF a < 0 THEN -a ELSE a

\* str::contains(ch)
Contains(s, ch) == \E i \in DOMAIN s : s[i] = ch

\* Unicode White_Space characters of the model's alphabet (str::trim).
WhiteSpace == {"SP", "CR", "LF"}

RECURSIVE TrimStart(_)
TrimStart(s) ==
    IF s = <<>> THEN s
    ELSE IF Head(s) \in WhiteSpace THEN TrimStart(Tail(s)) ELSE s

RECURSIVE TrimEnd(_)
TrimEnd(s) ==
    IF s = <<>> THEN s
    ELSE IF s[Len(s)] \in WhiteSpace THEN TrimEnd(SubSeq(s, 1, Len(s) - 1)) ELSE s

\* str::trim
Trim(s) == TrimEnd(TrimStart(s))

\* String::from_utf8_lossy: ASCII bytes decode to themselves, the byte pair
\* C2 AB decodes to the glyph, a byte of an incomplete sequence to U+FFFD.
RECURSIVE from_utf8_lossy(_)
from_utf8_lossy(bs) ==
    IF bs = <<>> THEN <<>>
    ELSE IF Head(bs) = "C2" /\ Len(bs) >= 2 /\ bs[2] = "AB"
         THEN <<"LAQUO">> \o from_utf8_lossy(Tail(Tail(bs)))
    ELSE IF Head(bs) \in {"C2", "AB"}
         THEN <<"FFFD">> \o from_utf8_lossy(Tail(bs))
    ELSE <<Head(bs)>> \o from_utf8_lossy(Tail(bs))

\* str::replace("\u{ab}", "")
StripGlyph(s) == SelectSeq(s, LAMBDA c : c # "LAQUO")

\* str::split(',') collected into a Vec: always at least one part.
RECURSIVE Split(_)
Split(s) ==
    IF ~Contains(s, ",") THEN <<s>>
    ELSE LET k == CHOOSE i \in DOMAIN s :
                      s[i] = "," /\ \A j \in 1..(i - 1) : s[j] # ","
         IN  <<SubSeq(s, 1, k - 1)>> \o Split(SubSeq(s, k + 1, Len(s)))

DigitChars == <<"0", "1", "2", "3", "4", "5", "6", "7", "8", "9">>
Digits == {DigitChars[k] : k \in DOMAIN DigitChars}
DigitVal(c) == (CHOOSE k \in DOMAIN DigitChars : DigitChars[k] = c) - 1

RECURSIVE DecVal(_)
DecVal(s) == IF s = <<>> THEN 0 ELSE 10 * DecVal(SubSeq(s, 1, Len(s) - 1)) + DigitVal(s[Len(s)])

\* The digits of s before its first '.', and those after it.
IntPart(s) ==
    IF Contains(s, ".")
    THEN SubSeq(s, 1, (CHOOSE k \in DOMAIN s : s[k] = "." /\ \A j \in 1..(k - 1) : s[j] # ".") - 1)
    ELSE s
FracPart(s) ==
    IF Contains(s, ".")
    THEN SubSeq(s, (CHOOSE k \in DOMAIN s : s[k] = "." /\ \A j \in 1..(k - 1) : s[j] # ".") + 1, Len(s))
    ELSE <<>>

\* s.parse::<f32>().unwrap_or(0.0), in thousandths: digits with at most one
\* '.' and at least one digit parse to their value (the texts of the model
\* carry at most three decimals), any other text of the model's alphabet
\* to 0.0.
ParseOrZero(s) ==
    LET ip == IntPart(s)
        fp == FracPart(s)
    IN  IF /\ Len(ip) + Len(fp) >= 1
           /\ Len(fp) <= 3
           /\ \A k \in DOMAIN ip : ip[k] \in Digits
           /\ \A k \in DOMAIN fp : fp[k] \in Digits
        THEN 1000 * DecVal(ip) + DecVal(fp) * (10 ^ (3 - Len(fp)))
        ELSE 0

\* str::to_uppercase
to_uppercase(s) == [i \in DOMAIN s |-> IF s[i] = "o" THEN "O" ELSE IF s[i] = "n" THEN "N" ELSE s[i]]

\* ------------------------------------------------------------- wire model
Fresh(bs) == [i \in DOMAIN bs |-> [b |-> bs[i], old |-> FALSE]]
MarkOld(q) == [i \in DOMAIN q |-> [b |-> q[i].b, old |-> TRUE]]
Bytes(q) == [i \in DOMAIN q |-> q[i].b]

\* format!("{}\r\n", cmd)
full_cmd(cmd) == cmd \o <<"CR", "LF">>

\* format!("{} {}", name, value)
with_value(name, value) == name \o <<"SP">> \o value

\* The transport handles that exist: the one the session holds and the one
\* the connect branch holds in its local `p` during the handshake.
OpenHandles == {shared_port, p} \ {NoPort}

\* tx is the write send_command last made for the running handler.
NoWrite == [frame |-> <<>>, ok |-> FALSE, by |-> "none"]

\* Mutant: a callback or tick is dispatched while a handler is still inside
\* its read loop.
DispatchReentrant ==
    /\ events < MaxEvents
    /\ events' = events + 1

\* The event loop dispatches one more callback or timer tick.
Dispatch ==
    /\ pc = "idle"
    /\ events < MaxEvents
    /\ events' = events + 1

Init ==
    /\ status_text = "Disconnected"
    /\ shared_port = NoPort
    /\ p = NoPort
    /\ monitor_timer = FALSE
    /\ loop_timer = FALSE
    /\ loop_state = FALSE
    /\ loop_v = << <<>>, <<>> >>
    /\ is_looping = FALSE
    /\ is_output_on = FALSE
    /\ enable_auto_refresh \in BOOLEAN
    /\ voltage_reading = <<"-", "-", "-">>
    /\ current_reading = <<"-", "-", "-">>
    /\ power_reading = 0
    /\ psu_mode = ""
    /\ active_current_limit = 0
    /\ history_v = <<>>
    /\ history_i = <<>>
    /\ pc = "idle"
    /\ handler = "none"
    /\ stage = 0
    /\ arg = <<>>
    /\ received_bytes = <<>>
    /\ result = None
    /\ rx = <<>>
    /\ owed = FALSE
    /\ replies = 0
    /\ tx = NoWrite
    /\ events = 0
    /\ polling_interval = <<"5", "0", "0">>
    /\ interval_ms = None
    /\ elapsed = 0
    /\ loop_sent = None

\* ------------------------------------------------------------ scpi.rs
\* Mutant: a reply is read after every command.
ExpectsReplyAlways(cmd) == TRUE

\* if cmd.contains('?')
ExpectsReply(cmd) == Contains(cmd, "?")

\* send_command up to the point where it either returns or enters
\* read_serial_response.  q is the port's input buffer at the call; ok is the
\* outcome of write_all.  No input flush precedes the write.
send_command(port, q, cmd, ok, by) ==
    /\ tx' = [frame |-> full_cmd(cmd), ok |-> ok, by |-> by]
    /\ rx' = MarkOld(q)
    /\ owed' = IF ok /\ Contains(cmd, "?") THEN TRUE ELSE owed
    /\ UNCHANGED replies
    /\ received_bytes' = <<>>
    /\ result' = None
    /\ elapsed' = 0
    /\ pc' = IF ok /\ ExpectsReply(cmd) THEN "reading" ELSE "returned"

\* Mutant: a carriage return ends the line too.
EndsLineOnCR(b) == b \in {"CR", "LF"}

\* if b == b'\n' { break; }
EndsLine(b) == b = "LF"

\* Mutant: bytes that were not closed by a line feed are dropped.
DecodedDropsPartial(received) ==
    IF received = <<>> \/ received[Len(received)].b # "LF" THEN None
    ELSE Some(Trim(from_utf8_lossy(Bytes(received))))

\* The value read_serial_response returns once its loop is left.
Decoded(received) ==
    IF received = <<>> THEN None
    ELSE Some(Trim(from_utf8_lossy(Bytes(received))))

\* port.read returned Ok(1).
ReadByte ==
    /\ pc = "reading"
    /\ rx # <<>>
    /\ received_bytes' = Append(received_bytes, Head(rx))
    /\ rx' = Tail(rx)
    /\ IF EndsLine(Head(rx).b)
       THEN /\ pc' = "returned"
            /\ result' = Decoded(received_bytes')
       ELSE UNCHANGED << pc, result >>
    /\ UNCHANGED << session_vars, ui_vars, loop_vars, poll_vars, handler, stage,
                    arg, owed, replies, tx, events, elapsed >>

\* start_time.elapsed() > timeout at the top of the loop.  (A read that
\* returns Ok(0) or Err(TimedOut) goes round the loop and changes nothing.)
ReadTimeout ==
    /\ pc = "reading"
    /\ pc' = "returned"
    /\ result' = Decoded(received_bytes)
    /\ UNCHANGED << session_vars, ui_vars, loop_vars, poll_vars, handler, stage,
                    arg, received_bytes, wire_vars, tx, events, elapsed >>

\* port.read returned an error other than TimedOut.
ReadError ==
    /\ pc = "reading"
    /\ pc' = "returned"
    /\ result' = Decoded(received_bytes)
    /\ UNCHANGED << session_vars, ui_vars, loop_vars, poll_vars, handler, stage,
                    arg, received_bytes, wire_vars, tx, events, elapsed >>

\* The device answers the last query it received with one line, at any
\* time while the port is open (owed: a query went out and is unanswered).
DeviceEmit ==
    /\ OpenHandles # {}
    /\ owed
    /\ replies < MaxReplies
    /\ owed' = FALSE
    /\ \E r \in Replies :
          /\ Len(rx) + Len(r) <= MaxRx
          /\ rx' = rx \o Fresh(r)
    /\ replies' = replies + 1
    /\ UNCHANGED << session_vars, ui_vars, loop_vars, poll_vars, pc, handler,
                    stage, arg, read_vars, tx, events >>

\* A handler is done: control goes back to the event loop.
Leave ==
    /\ pc' = "idle"
    /\ handler' = "none"
    /\ stage' = 0
    /\ arg' = <<>>
    /\ received_bytes' = <<>>
    /\ result' = None
    /\ elapsed' = 0
    /\ tx' = NoWrite
    /\ UNCHANGED events

\* ------------------------------------------------------------ main.rs
Sentinel == <<"-", "-", "-">>
Zeros == [i \in 1..CHART_WIDTH |-> 0]

\* A u64 is kept as its decimal numeral (2^64 is beyond the integers of the
\* checker): a digit sequence without leading zeros.
U64_MAX == <<"1", "8", "4", "4", "6", "7", "4", "4", "0", "7",
             "3", "7", "0", "9", "5", "5", "1", "6", "1", "5">>

RECURSIVE StripZeros(_)
StripZeros(ds) ==
    IF Len(ds) > 1 /\ Head(ds) = "0" THEN StripZeros(Tail(ds)) ELSE ds

\* a < b for two numerals of the same length.
RECURSIVE LexLess(_, _)
LexLess(a, b) ==
    IF a = <<>> THEN FALSE
    ELSE IF Head(a) # Head(b) THEN DigitVal(Head(a)) < DigitVal(Head(b))
    ELSE LexLess(Tail(a), Tail(b))

\* a < b for two numerals.
NumLess(a, b) ==
    \/ Len(a) < Len(b)
    \/ Len(a) = Len(b) /\ LexLess(a, b)

\* u64::max
NumMax(a, b) == IF NumLess(a, b) THEN b ELSE a

\* str::parse::<u64>: an optional '+', then one or more digits, nothing
\* else; a value above u64::MAX is an error.  None stands for Err.
parse_u64(s) ==
    LET body == IF s # <<>> /\ Head(s) = "+" THEN Tail(s) ELSE s
    IN  IF body = <<>> \/ \E k \in DOMAIN body : body[k] \notin Digits THEN None
        ELSE IF NumLess(U64_MAX, StripZeros(body)) THEN None
        ELSE Some(StripZeros(body))

\* raw_interval: parse::<u64>().unwrap_or(100)
raw_interval(text) ==
    IF parse_u64(text) = None THEN <<"1", "0", "0">> ELSE parse_u64(text)[1]

\* Mutant: the interval is used as configured, without the minimum.
clamp_interval_unfloored(raw) == raw

\* raw_interval.max(200)
clamp_interval(raw) == NumMax(raw, <<"2", "0", "0">>)

\* trigger_auto_poll up to timer.start: fresh history buffers of CHART_WIDTH
\* zeros owned by the new tick closure; the interval is read from the UI
\* text, raised to the minimum and written back when it was below it; the
\* monitor timer is (re)started with it.
trigger_auto_poll ==
    /\ history_v' = Zeros
    /\ history_i' = Zeros
    /\ polling_interval' =
          IF NumLess(raw_interval(polling_interval), <<"2", "0", "0">>)
          THEN clamp_interval(raw_interval(polling_interval))
          ELSE polling_interval
    /\ interval_ms' = Some(clamp_interval(raw_interval(polling_interval)))
    /\ monitor_timer' = TRUE

\* Mutant: the oldest sample is not evicted.
PopFrontKeeps(h) == h

\* VecDeque::pop_front (nothing happens on an empty queue) and ::back.
PopFront(h) == IF h = <<>> THEN h ELSE Tail(h)
Back(h) == IF h = <<>> THEN 0 ELSE h[Len(h)]

\* The fields of a READ_ALL reply: replace the glyph, trim, split on ','.
Parts(raw_res) == Split(Trim(StripGlyph(raw_res)))

\* The tick counts as a successful read: a reply came and it has two parts.
ReadSuccess(res) == res # None /\ Len(Parts(res[1])) >= 2

\* ---- f32 arithmetic (IEEE 754 binary32, round to nearest, ties to even)
\* A non-negative f32 is [m, e], standing for m * 2^(-e), with m = 0 or
\* 2^23 <= m < 2^24.  The values met lie far inside the normal range.
Pow2(k) == 2 ^ k
F32Zero == [m |-> 0, e |-> 0]

\* Round q (with remainder rem out of 2 * half below it) to nearest even.
F32Round(q, rem, half, e) ==
    LET up == rem > half \/ (rem = half /\ q % 2 = 1)
        m == IF up THEN q + 1 ELSE q
    IN  IF m = Pow2(24) THEN [m |-> Pow2(23), e |-> e - 1] ELSE [m |-> m, e |-> e]

\* Binary expansion of (q + r / 1000) * 2^e until q has 24 bits.
RECURSIVE F32Scale(_, _, _)
F32Scale(q, r, e) ==
    IF q >= Pow2(23) THEN F32Round(q, 2 * r, 1000, e)
    ELSE F32Scale(2 * q + (IF 2 * r >= 1000 THEN 1 ELSE 0), (2 * r) % 1000, e + 1)

\* str::parse::<f32> of a decimal text worth `milli` thousandths: the f32
\* nearest to milli / 1000.
F32Of(milli) ==
    IF milli = 0 THEN F32Zero ELSE F32Scale(milli \div 1000, milli % 1000, 0)

\* a < b
F32Less(a, b) ==
    IF b.m = 0 THEN FALSE
    ELSE IF a.m = 0 THEN TRUE
    ELSE a.e > b.e \/ (a.e = b.e /\ a.m < b.m)

\* Bring n * 2^(-e), n < 2^28, into [m, e] form: shift left (exact) or
\* right (rounded).
RECURSIVE F32Norm(_, _, _)
F32Norm(n, e, k) ==
    IF n = 0 THEN F32Zero
    ELSE IF n < Pow2(23) THEN F32Norm(2 * n, e + 1, 0)
    ELSE IF n \div Pow2(k) >= Pow2(24) THEN F32Norm(n, e, k + 1)
    ELSE IF k = 0 THEN [m |-> n, e |-> e]
    ELSE F32Round(n \div Pow2(k), n % Pow2(k), Pow2(k - 1), e - k)

\* (a - b).abs(): the larger operand gets three guard bits, the smaller is
\* shifted onto its scale with a sticky bit, and the difference is rounded.
F32AbsDiff(a, b) ==
    LET hi == IF F32Less(a, b) THEN b ELSE a
        lo == IF F32Less(a, b) THEN a ELSE b
    IN  IF lo.m = 0 THEN hi
        ELSE LET d == IF lo.e - hi.e > 27 THEN 27 ELSE lo.e - hi.e
                 lq == (lo.m * 8) \div Pow2(d)
                 sticky == IF (lo.m * 8) % Pow2(d) # 0 THEN 1 ELSE 0
                 dq == hi.m * 8 - lq - sticky
             IN  F32Norm(2 * dq + sticky, hi.e + 4, 0)

\* a * b: the 48-bit product from 12-bit halves, rounded to 24 bits.
F32Mul(a, b) ==
    IF a.m = 0 \/ b.m = 0 THEN F32Zero
    ELSE LET a1 == a.m \div 4096
             a0 == a.m % 4096
             b1 == b.m \div 4096
             b0 == b.m % 4096
             mid == a1 * b0 + a0 * b1
             low == (mid % 4096) * 4096 + a0 * b0
             top == a1 * b1 + mid \div 4096 + low \div Pow2(24)
             rest == low % Pow2(24)
         IN  IF top >= Pow2(23)
             THEN F32Round(top, rest, Pow2(23), a.e + b.e - 24)
             ELSE F32Round(2 * top + rest \div Pow2(23), rest % Pow2(23), Pow2(22),
                           a.e + b.e - 23)

\* is_cc, main.rs:342, on f32 values given in thousandths of an ampere:
\* (curr_i - i_limit_active).abs() < (i_limit_active * 0.05) && curr_i > 0.01
IsCC(curr_i, i_limit_active) ==
    /\ F32Less(F32AbsDiff(F32Of(curr_i), F32Of(i_limit_active)),
               F32Mul(F32Of(i_limit_active), F32Of(50)))
    /\ F32Less(F32Of(10), F32Of(curr_i))

\* Mutant: the band is 50% of the limit.
PsuModeWideBand(output_on, curr_i, i_limit_active) ==
    IF ~output_on THEN ""
    ELSE IF Abs(curr_i - i_limit_active) * 2 < i_limit_active /\ curr_i > 10 THEN "CC"
    ELSE "CV"

\* CC/CV classification, main.rs:336-350.
PsuMode(output_on, curr_i, i_limit_active) ==
    IF ~output_on THEN "" ELSE IF IsCC(curr_i, i_limit_active) THEN "CC" ELSE "CV"

\* Mutant: a failed tick pushes the tick's initial 0.0.
SampleZeroOnFailure(success, fresh, history) == IF success THEN fresh ELSE 0

\* The value pushed to a history buffer by a tick.
Sample(success, fresh, history) == IF success THEN fresh ELSE Back(history)

\* The body of the poll tick closure after send_command (or after the port
\* was found absent): res is the reply, None when there was none.
PollComplete(res) ==
    LET success == ReadSuccess(res)
        v_str == IF success THEN Trim(Parts(res[1])[1]) ELSE <<>>
        i_str == IF success THEN Trim(Parts(res[1])[2]) ELSE <<>>
        curr_v == ParseOrZero(v_str)
        curr_i == ParseOrZero(i_str)
    IN  /\ IF success
           THEN /\ voltage_reading' = v_str
                /\ current_reading' = i_str
                \* format!("{:.2}", curr_v * curr_i), in hundredths
                /\ power_reading' = (curr_v * curr_i) \div 10000
                /\ psu_mode' = PsuMode(is_output_on, curr_i, active_current_limit)
           ELSE UNCHANGED << voltage_reading, current_reading, power_reading, psu_mode >>
        /\ history_v' = Append(PopFront(history_v), Sample(success, curr_v, history_v))
        /\ history_i' = Append(PopFront(history_i), Sample(success, curr_i, history_i))
        /\ UNCHANGED << monitor_timer, is_looping, is_output_on, enable_auto_refresh,
                        active_current_limit, polling_interval, interval_ms >>

\* The monitor timer fires: the tick closure runs up to send_command.
PollTick ==
    /\ Dispatch
    /\ monitor_timer
    /\ IF shared_port # NoPort
       THEN /\ \E ok \in BOOLEAN : send_command(shared_port, rx, READ_ALL, ok, "poll")
            /\ handler' = "poll"
            /\ UNCHANGED << ui_vars, poll_vars, stage, arg >>
       ELSE /\ PollComplete(None)
            /\ UNCHANGED << pc, handler, stage, arg, read_vars, wire_vars, tx >>
    /\ UNCHANGED << session_vars, loop_vars >>

\* Mutant: a tick without a reply gives the connection up.
PollReturnDropsPort ==
    /\ pc = "returned"
    /\ handler = "poll"
    /\ PollComplete(result)
    /\ Leave
    /\ IF result = None
       THEN /\ shared_port' = NoPort
            /\ status_text' = "Err"
            /\ rx' = <<>>
            /\ UNCHANGED << p, owed, replies >>
       ELSE UNCHANGED << session_vars, wire_vars >>
    /\ UNCHANGED loop_vars

PollReturn ==
    /\ pc = "returned"
    /\ handler = "poll"
    /\ PollComplete(result)
    /\ Leave
    /\ UNCHANGED << session_vars, loop_vars, wire_vars >>

\* main.rs:62-69: the loop and output flags are cleared and the read-back
\* fields set to their sentinel texts ("---", "---", "0.00", "").
ResetReadbacks ==
    /\ is_looping' = FALSE
    /\ is_output_on' = FALSE
    /\ voltage_reading' = Sentinel
    /\ current_reading' = Sentinel
    /\ power_reading' = 0
    /\ psu_mode' = ""

\* Mutant: the disconnect is abandoned when the unlock write failed.
DisconnectCompleteIfUnlocked ==
    /\ shared_port' = IF tx.ok THEN NoPort ELSE shared_port
    /\ status_text' = IF tx.ok THEN "Disconnected" ELSE status_text
    /\ ResetReadbacks
    /\ UNCHANGED << p, enable_auto_refresh, active_current_limit, loop_vars,
                    history_v, history_i, polling_interval, interval_ms >>

\* on_toggle_connection, disconnect branch, after the unlock write.
DisconnectComplete ==
    /\ shared_port' = NoPort
    /\ status_text' = "Disconnected"
    /\ ResetReadbacks
    /\ UNCHANGED << p, enable_auto_refresh, active_current_limit, loop_vars,
                    history_v, history_i, polling_interval, interval_ms >>

\* Mutant: the status is compared with a text it never holds.
IsConnectedWrongText == status_text = "connected"

\* if ui.get_status_text() == "Connected"
IsConnected == status_text = "Connected"

\* Mutant: the monitor timer is left running while the unlock is sent.
DisconnectStartKeepsPolling ==
    /\ Dispatch
    /\ IsConnected
    /\ UNCHANGED monitor_timer
    /\ IF shared_port # NoPort
       THEN /\ \E ok \in BOOLEAN : send_command(shared_port, rx, UNLOCK, ok, "disconnect")
            /\ handler' = "disconnect"
            /\ UNCHANGED << session_vars, ui_vars, loop_vars, history_v, history_i,
                            polling_interval, interval_ms, stage, arg >>
       ELSE /\ DisconnectComplete
            /\ UNCHANGED << pc, handler, stage, arg, read_vars, wire_vars, tx >>

\* on_toggle_connection while the status reads "Connected": stop the monitor
\* timer, send UNLOCK if a port is held.
DisconnectStart ==
    /\ Dispatch
    /\ IsConnected
    /\ monitor_timer' = FALSE
    /\ IF shared_port # NoPort
       THEN /\ \E ok \in BOOLEAN : send_command(shared_port, rx, UNLOCK, ok, "disconnect")
            /\ handler' = "disconnect"
            /\ UNCHANGED << session_vars, ui_vars, loop_vars, history_v, history_i,
                            polling_interval, interval_ms, stage, arg >>
       ELSE /\ DisconnectComplete
            /\ UNCHANGED << pc, handler, stage, arg, read_vars, wire_vars, tx >>

\* The unlock write has returned.  Dropping the handle closes the port and
\* its input buffer is gone.
DisconnectReturn ==
    /\ pc = "returned"
    /\ handler = "disconnect"
    /\ DisconnectComplete
    /\ Leave
    /\ rx' = <<>>
    /\ UNCHANGED << monitor_timer, owed, replies >>

\* The queries of the connect handshake, in order.
ConnectCmds == << IDN, READ_OUTP, GET_SET_VOLT, GET_SET_CURR, GET_SET_VOLT, GET_SET_CURR >>

\* Mutant: a failed open is reported as "Connected".
ConnectStartMarksConnected ==
    /\ Dispatch
    /\ ~IsConnected
    /\ \E opened \in BOOLEAN :
          IF opened
          THEN /\ p' = CHOOSE h \in PortIds : h \notin OpenHandles
               /\ \E ok \in BOOLEAN : send_command(p', <<>>, ConnectCmds[1], ok, "connect")
               /\ handler' = "connect"
               /\ stage' = 1
               /\ UNCHANGED << status_text, arg >>
          ELSE /\ status_text' = "Connected"
               /\ UNCHANGED << p, pc, handler, stage, arg, read_vars, wire_vars, tx >>
    /\ UNCHANGED << shared_port, ui_vars, loop_vars, poll_vars >>

\* on_toggle_connection while the status does not read "Connected":
\* open the port; on success clear its input and send the identity query.
ConnectStart ==
    /\ Dispatch
    /\ ~IsConnected
    /\ \E opened \in BOOLEAN :
          IF opened
          THEN /\ p' = CHOOSE h \in PortIds : h \notin OpenHandles
               /\ \E ok \in BOOLEAN : send_command(p', <<>>, ConnectCmds[1], ok, "connect")
               /\ handler' = "connect"
               /\ stage' = 1
               /\ UNCHANGED << status_text, arg >>
          ELSE /\ status_text' = "Err"
               /\ UNCHANGED << p, pc, handler, stage, arg, read_vars, wire_vars, tx >>
    /\ UNCHANGED << shared_port, ui_vars, loop_vars, poll_vars >>

\* clean == "1" || clean == "ON"
IsOn(outp_status) ==
    LET clean == to_uppercase(Trim(outp_status))
    IN  clean = <<"1">> \/ clean = <<"O", "N">>

\* What a handshake reply changes: the output flag (READ_OUTP) and the
\* active current limit (second GET_SET_CURR).  The window title and the
\* setpoint text boxes are display-only and not modelled.
ConnectApply(k, res) ==
    /\ is_output_on' = IF k = 2 /\ res # None THEN IsOn(res[1]) ELSE is_output_on
    /\ active_current_limit' =
          IF k = 6 /\ res # None THEN ParseOrZero(Trim(res[1])) ELSE active_current_limit

\* Mutant: a handshake query without a reply aborts the connection.
ConnectReturnAbortsOnFailure ==
    /\ pc = "returned"
    /\ handler = "connect"
    /\ IF result = None
       THEN /\ p' = NoPort
            /\ status_text' = "Err"
            /\ rx' = <<>>
            /\ Leave
            /\ UNCHANGED << shared_port, is_output_on, active_current_limit,
                            poll_vars, owed, replies >>
       ELSE /\ ConnectApply(stage, result)
            /\ IF stage < Len(ConnectCmds)
               THEN /\ \E ok \in BOOLEAN :
                          send_command(p, rx, ConnectCmds[stage + 1], ok, "connect")
                    /\ stage' = stage + 1
                    /\ UNCHANGED << session_vars, handler, arg, poll_vars, events >>
               ELSE /\ shared_port' = p
                    /\ p' = NoPort
                    /\ status_text' = "Connected"
                    /\ IF enable_auto_refresh
                       THEN trigger_auto_poll
                       ELSE UNCHANGED poll_vars
                    /\ Leave
                    /\ UNCHANGED wire_vars
    /\ UNCHANGED << is_looping, enable_auto_refresh, voltage_reading, current_reading,
                    power_reading, psu_mode, loop_vars >>

\* A handshake query has returned: apply it, then send the next query or,
\* after the last one, store the port and enter Connected.
ConnectReturn ==
    /\ pc = "returned"
    /\ handler = "connect"
    /\ ConnectApply(stage, result)
    /\ IF stage < Len(ConnectCmds)
       THEN /\ \E ok \in BOOLEAN :
                  send_command(p, rx, ConnectCmds[stage + 1], ok, "connect")
            /\ stage' = stage + 1
            /\ UNCHANGED << session_vars, handler, arg, poll_vars, events >>
       ELSE /\ shared_port' = p
            /\ p' = NoPort
            /\ status_text' = "Connected"
            /\ IF enable_auto_refresh
               THEN trigger_auto_poll
               ELSE UNCHANGED poll_vars
            /\ Leave
            /\ UNCHANGED wire_vars
    /\ UNCHANGED << is_looping, enable_auto_refresh, voltage_reading, current_reading,
                    power_reading, psu_mode, loop_vars >>

\* Mutant: the poller is started and stopped whatever the status reads.
on_toggle_auto_refresh_any_status ==
    /\ Dispatch
    /\ \E enabled \in BOOLEAN :
          /\ enable_auto_refresh' = enabled
          /\ IF enabled
             THEN trigger_auto_poll
             ELSE /\ monitor_timer' = FALSE
                  /\ UNCHANGED << history_v, history_i, polling_interval,
                                  interval_ms >>
    /\ UNCHANGED << session_vars, loop_vars, is_looping, is_output_on, voltage_reading,
                    current_reading, power_reading, psu_mode, active_current_limit,
                    pc, handler, stage, arg, read_vars, wire_vars, tx >>

\* on_toggle_auto_refresh(enabled).  The check box that raises the callback
\* is bound to the enable-auto-refresh property read at connect.
on_toggle_auto_refresh ==
    /\ Dispatch
    /\ \E enabled \in BOOLEAN :
          /\ enable_auto_refresh' = enabled
          /\ IF status_text = "Connected"
             THEN IF enabled
                  THEN trigger_auto_poll
                  ELSE /\ monitor_timer' = FALSE
                       /\ UNCHANGED << history_v, history_i, polling_interval,
                                       interval_ms >>
             ELSE UNCHANGED poll_vars
    /\ UNCHANGED << session_vars, loop_vars, is_looping, is_output_on, voltage_reading,
                    current_reading, power_reading, psu_mode, active_current_limit,
                    pc, handler, stage, arg, read_vars, wire_vars, tx >>

\* Mutant: the command is sent without looking whether a port is held.
io_scpi_unguarded(h, cmd, a, Resume) ==
    /\ \E ok \in BOOLEAN : send_command(shared_port, rx, cmd, ok, h)
    /\ handler' = h
    /\ arg' = a
    /\ UNCHANGED << stage, ui_vars >>

\* io_scpi: send the command if a port is held, else return None at once.
\* The handler h resumes at pc = "returned", or runs on within this step
\* (Resume) when no port is held.
io_scpi(h, cmd, a, Resume) ==
    IF shared_port # NoPort
    THEN /\ \E ok \in BOOLEAN : send_command(shared_port, rx, cmd, ok, h)
         /\ handler' = h
         /\ arg' = a
         /\ UNCHANGED << stage, ui_vars >>
    ELSE /\ Resume
         /\ UNCHANGED << pc, handler, stage, arg, read_vars, wire_vars, tx >>

NoUiChange == UNCHANGED ui_vars

on_send_command ==
    /\ Dispatch
    /\ \E cmd_str \in UserCmds : io_scpi("send_command", cmd_str, <<>>, NoUiChange)
    /\ UNCHANGED << session_vars, loop_vars, poll_vars >>

on_send_command_return ==
    /\ pc = "returned"
    /\ handler = "send_command"
    /\ Leave
    /\ UNCHANGED << session_vars, ui_vars, loop_vars, poll_vars, wire_vars >>

\* The active voltage target set here is display-only and not modelled.
on_apply_voltage ==
    /\ Dispatch
    /\ \E v \in UserValues :
          io_scpi("apply_voltage", with_value(SET_VOLT, v), v, NoUiChange)
    /\ UNCHANGED << session_vars, loop_vars, poll_vars >>

on_apply_voltage_return ==
    /\ pc = "returned"
    /\ handler = "apply_voltage"
    /\ Leave
    /\ UNCHANGED << session_vars, ui_vars, loop_vars, poll_vars, wire_vars >>

SetActiveCurrentLimit(c) ==
    /\ active_current_limit' = ParseOrZero(c)
    /\ UNCHANGED << is_looping, is_output_on, enable_auto_refresh, voltage_reading,
                    current_reading, power_reading, psu_mode >>

on_apply_current ==
    /\ Dispatch
    /\ \E c \in UserValues :
          io_scpi("apply_current", with_value(SET_CURR, c), c, SetActiveCurrentLimit(c))
    /\ UNCHANGED << session_vars, loop_vars, poll_vars >>

on_apply_current_return ==
    /\ pc = "returned"
    /\ handler = "apply_current"
    /\ SetActiveCurrentLimit(arg)
    /\ Leave
    /\ UNCHANGED << session_vars, loop_vars, poll_vars, wire_vars >>

on_read_voltage ==
    /\ Dispatch
    /\ io_scpi("read_voltage", READ_VOLT, <<>>, NoUiChange)
    /\ UNCHANGED << session_vars, loop_vars, poll_vars >>

on_read_voltage_return ==
    /\ pc = "returned"
    /\ handler = "read_voltage"
    /\ voltage_reading' = IF result # None THEN result[1] ELSE voltage_reading
    /\ Leave
    /\ UNCHANGED << session_vars, loop_vars, poll_vars, wire_vars, is_looping,
                    is_output_on, enable_auto_refresh, current_reading, power_reading,
                    psu_mode, active_current_limit >>

on_read_current ==
    /\ Dispatch
    /\ io_scpi("read_current", READ_CURR, <<>>, NoUiChange)
    /\ UNCHANGED << session_vars, loop_vars, poll_vars >>

on_read_current_return ==
    /\ pc = "returned"
    /\ handler = "read_current"
    /\ current_reading' = IF result # None THEN result[1] ELSE current_reading
    /\ Leave
    /\ UNCHANGED << session_vars, loop_vars, poll_vars, wire_vars, is_looping,
                    is_output_on, enable_auto_refresh, voltage_reading, power_reading,
                    psu_mode, active_current_limit >>

on_confirm_reset ==
    /\ Dispatch
    /\ io_scpi("confirm_reset", RESET, <<>>, NoUiChange)
    /\ UNCHANGED << session_vars, loop_vars, poll_vars >>

on_confirm_reset_return ==
    /\ pc = "returned"
    /\ handler = "confirm_reset"
    /\ Leave
    /\ UNCHANGED << session_vars, ui_vars, loop_vars, poll_vars, wire_vars >>

\* on_toggle_loop(va, vb, interval): stop the loop timer if the UI flag says
\* the loop runs, else set the flag and start the timer on (va, vb).
on_toggle_loop ==
    /\ Dispatch
    /\ IF is_looping
       THEN /\ loop_timer' = FALSE
            /\ is_looping' = FALSE
            /\ UNCHANGED << loop_state, loop_v >>
       ELSE /\ is_looping' = TRUE
            /\ \E va \in LoopValues : \E vb \in LoopValues \ {va} : loop_v' = <<va, vb>>
            /\ loop_timer' = TRUE
            /\ UNCHANGED loop_state
    /\ loop_sent' = None
    /\ UNCHANGED << session_vars, poll_vars, is_output_on, enable_auto_refresh,
                    voltage_reading, current_reading, power_reading, psu_mode,
                    active_current_limit, pc, handler, stage, arg, read_vars, wire_vars, tx >>

\* Mutant: the tick does not flip the flag.
LoopTickNoFlip ==
    /\ Dispatch
    /\ loop_timer
    /\ UNCHANGED loop_state
    /\ LET target_v == IF loop_state THEN loop_v[1] ELSE loop_v[2]
       IN  IF shared_port # NoPort
           THEN /\ \E ok \in BOOLEAN :
                      send_command(shared_port, rx, with_value(SET_VOLT, target_v), ok, "loop")
                /\ handler' = "loop"
                /\ loop_sent' = Some(target_v)
                /\ UNCHANGED << stage, arg >>
           ELSE /\ loop_sent' = None
                /\ UNCHANGED << pc, handler, stage, arg, read_vars, wire_vars, tx >>
    /\ UNCHANGED << session_vars, ui_vars, poll_vars, loop_timer, loop_v >>

\* The loop timer fires: flip the flag, pick the setpoint, send it if a port
\* is held.  loop_sent records the setpoint the tick wrote (None when it
\* wrote nothing), for comparison with the next tick's.
LoopTick ==
    /\ Dispatch
    /\ loop_timer
    /\ loop_state' = ~loop_state
    /\ LET target_v == IF loop_state' THEN loop_v[1] ELSE loop_v[2]
       IN  IF shared_port # NoPort
           THEN /\ \E ok \in BOOLEAN :
                      send_command(shared_port, rx, with_value(SET_VOLT, target_v), ok, "loop")
                /\ handler' = "loop"
                /\ loop_sent' = Some(target_v)
                /\ UNCHANGED << stage, arg >>
           ELSE /\ loop_sent' = None
                /\ UNCHANGED << pc, handler, stage, arg, read_vars, wire_vars, tx >>
    /\ UNCHANGED << session_vars, ui_vars, poll_vars, loop_timer, loop_v >>

LoopReturn ==
    /\ pc = "returned"
    /\ handler = "loop"
    /\ Leave
    /\ UNCHANGED << session_vars, ui_vars, loop_vars, poll_vars, wire_vars >>

Next ==
    \/ ConnectStart
    \/ ConnectReturn
    \/ DisconnectStart
    \/ DisconnectReturn
    \/ on_toggle_auto_refresh
    \/ on_send_command
    \/ on_send_command_return
    \/ on_apply_voltage
    \/ on_apply_voltage_return
    \/ on_apply_current
    \/ on_apply_current_return
    \/ on_read_voltage
    \/ on_read_voltage_return
    \/ on_read_current
    \/ on_read_current_return
    \/ on_confirm_reset
    \/ on_confirm_reset_return
    \/ on_toggle_loop
    \/ LoopTick
    \/ LoopReturn
    \/ PollTick
    \/ PollReturn
    \/ ReadByte
    \/ ReadTimeout
    \/ ReadError
    \/ DeviceEmit

Spec == Init /\ [][Next]_vars

\* ------------------------------------------------- one tick of the poller
\* Decimal text of a natural number, and of a value given in thousandths
\* ("0.950"), as the device prints a measurement.
RECURSIVE NatText(_)
NatText(n) ==
    IF n < 10 THEN <<DigitChars[n + 1]>>
    ELSE NatText(n \div 10) \o <<DigitChars[(n % 10) + 1]>>
MilliText(milli) ==
    NatText(milli \div 1000) \o <<".">> \o
    <<DigitChars[((milli \div 100) % 10) + 1], DigitChars[((milli \div 10) % 10) + 1],
      DigitChars[(milli % 10) + 1]>>

\* Current limits in force when the tick runs, in mA.
ModeLimits == {0, 5, 10, 20, 100, 200, 1000, 2000}

\* The line the device answered the tick's query with: 5 V and m mA.
ModeReply(m) == <<"5", ",">> \o MilliText(m) \o <<"CR", "LF">>

\* A polling session in the middle of a tick: send_command has returned the
\* reply line into the tick closure.  The output flag and the active limit
\* are as connect or apply-current left them.
ModeInit ==
    /\ status_text = "Connected"
    /\ shared_port = "h1"
    /\ p = NoPort
    /\ monitor_timer = TRUE
    /\ loop_timer = FALSE
    /\ loop_state = FALSE
    /\ loop_v = << <<>>, <<>> >>
    /\ is_looping = FALSE
    /\ is_output_on \in BOOLEAN
    /\ enable_auto_refresh = TRUE
    /\ voltage_reading = <<"-", "-", "-">>
    /\ current_reading = <<"-", "-", "-">>
    /\ power_reading = 0
    /\ psu_mode = ""
    /\ active_current_limit \in ModeLimits
    /\ history_v = Zeros
    /\ history_i = Zeros
    /\ pc = "returned"
    /\ handler = "poll"
    /\ stage = 0
    /\ arg = <<>>
    /\ \E m \in 0..MaxMilliAmp :
          /\ received_bytes = Fresh(ModeReply(m))
          /\ result = Decoded(Fresh(ModeReply(m)))
    /\ rx = <<>>
    /\ owed = FALSE
    /\ replies = 1
    /\ tx = [frame |-> full_cmd(READ_ALL), ok |-> TRUE, by |-> "poll"]
    /\ events = 2
    /\ polling_interval = <<"5", "0", "0">>
    /\ interval_ms = Some(<<"5", "0", "0">>)
    /\ elapsed = 0
    /\ loop_sent = None

\* The tick closure runs to its end.
ModeNext == PollReturn

ModeSpec == ModeInit /\ [][ModeNext]_vars

\* ------------------------------------------------- the polling interval
\* Texts the caller can leave in the polling-interval box: empty, not a
\* number, negative, padded, signed, below, at and above the minimum,
\* u64::MAX and u64::MAX + 1.
IntervalTexts ==
    { <<>>, <<"x">>, <<"-", "5">>, <<"SP", "3", "0", "0">>, <<"+", "3", "0", "0">>,
      <<"0">>, <<"5", "0">>, <<"1", "9", "9">>, <<"2", "0", "0">>, <<"2", "0", "1">>,
      <<"0", "2", "5", "0">>, <<"1", "0", "0", "0">>,
      U64_MAX,
      <<"1", "8", "4", "4", "6", "7", "4", "4", "0", "7",
        "3", "7", "0", "9", "5", "5", "1", "6", "1", "6">> }

\* The program after construction, with any of the texts in the box.
IntervalInit ==
    /\ status_text = "Disconnected"
    /\ shared_port = NoPort
    /\ p = NoPort
    /\ monitor_timer = FALSE
    /\ loop_timer = FALSE
    /\ loop_state = FALSE
    /\ loop_v = << <<>>, <<>> >>
    /\ is_looping = FALSE
    /\ is_output_on = FALSE
    /\ enable_auto_refresh \in BOOLEAN
    /\ voltage_reading = <<"-", "-", "-">>
    /\ current_reading = <<"-", "-", "-">>
    /\ power_reading = 0
    /\ psu_mode = ""
    /\ active_current_limit = 0
    /\ history_v = <<>>
    /\ history_i = <<>>
    /\ pc = "idle"
    /\ handler = "none"
    /\ stage = 0
    /\ arg = <<>>
    /\ received_bytes = <<>>
    /\ result = None
    /\ rx = <<>>
    /\ owed = FALSE
    /\ replies = 0
    /\ tx = NoWrite
    /\ events = 0
    /\ polling_interval \in IntervalTexts
    /\ interval_ms = None
    /\ elapsed = 0
    /\ loop_sent = None

\* The callbacks that start and stop the poller, on a silent device.
IntervalNext ==
    \/ ConnectStart
    \/ ConnectReturn
    \/ ReadTimeout
    \/ DisconnectStart
    \/ DisconnectReturn
    \/ on_toggle_auto_refresh

IntervalSpec == IntervalInit /\ [][IntervalNext]_vars

\* ----------------------------------------------------- the waveform loop
\* A session connected to a silent device (no handshake query was answered,
\* auto-refresh off); the flip-flop may be in either position, as it is
\* never reset between runs of the loop.
LoopInit ==
    /\ status_text = "Connected"
    /\ shared_port = "h1"
    /\ p = NoPort
    /\ monitor_timer = FALSE
    /\ loop_timer = FALSE
    /\ loop_state \in BOOLEAN
    /\ loop_v = << <<>>, <<>> >>
    /\ is_looping = FALSE
    /\ is_output_on = FALSE
    /\ enable_auto_refresh = FALSE
    /\ voltage_reading = <<"-", "-", "-">>
    /\ current_reading = <<"-", "-", "-">>
    /\ power_reading = 0
    /\ psu_mode = ""
    /\ active_current_limit = 0
    /\ history_v = <<>>
    /\ history_i = <<>>
    /\ pc = "idle"
    /\ handler = "none"
    /\ stage = 0
    /\ arg = <<>>
    /\ received_bytes = <<>>
    /\ result = None
    /\ rx = <<>>
    /\ owed = FALSE
    /\ replies = 0
    /\ tx = NoWrite
    /\ events = 0
    /\ polling_interval = <<"5", "0", "0">>
    /\ interval_ms = None
    /\ elapsed = 0
    /\ loop_sent = None

\* The loop's own callbacks and ticks, and the disconnect and reconnect
\* (to the same silent device) that take the port away from under it and
\* give it back.
LoopNext ==
    \/ on_toggle_loop
    \/ LoopTick
    \/ LoopReturn
    \/ DisconnectStart
    \/ DisconnectReturn
    \/ ConnectStart
    \/ ConnectReturn
    \/ ReadTimeout

LoopSpec == LoopInit /\ [][LoopNext]_vars

\* ------------------------------------------- one exchange against the clock
\* In Spec the 500 ms deadline is abstract: ReadTimeout may be taken at any
\* point of a read.  ReadSpec keeps the time since read_serial_response was
\* entered in `elapsed` and lets the device stream bytes of its own accord.
StreamBytes == {"1", "CR", "LF"}

\* Mutant: the deadline is never found to have passed.
ExpiredNever == FALSE

\* start_time.elapsed() > timeout
Expired == elapsed > READ_TIMEOUT_MS

\* A session connected to a silent device, as in LoopInit.
ReadInit ==
    /\ LoopInit
    /\ ~loop_state

\* Time passes while the handler is inside read_serial_response: in a read
\* call that returns Ok(0) or Err(TimedOut) after at most its per-call
\* timeout and changes nothing else, or between two calls.  The counter
\* stops once the deadline has passed.
Advance ==
    /\ pc = "reading"
    /\ elapsed <= READ_TIMEOUT_MS
    /\ elapsed' = elapsed + ClockStep
    /\ UNCHANGED << session_vars, ui_vars, loop_vars, poll_vars, pc, handler,
                    stage, arg, received_bytes, result, wire_vars, tx, events >>

\* The device puts one more byte on the line, asked or not.
DeviceStream ==
    /\ OpenHandles # {}
    /\ Len(rx) + Len(received_bytes) < MaxStream
    /\ \E b \in StreamBytes : rx' = Append(rx, [b |-> b, old |-> FALSE])
    /\ UNCHANGED << session_vars, ui_vars, loop_vars, poll_vars, pc, handler,
                    stage, arg, read_vars, owed, replies, tx, events >>

\* The loop of read_serial_response: the deadline is looked at first, the
\* port is read only if it has not passed.
TimedReadTimeout == Expired /\ ReadTimeout
TimedReadByte == ~Expired /\ ReadByte
TimedReadError == ~Expired /\ ReadError

ReadNext ==
    \/ on_send_command
    \/ on_send_command_return
    \/ DeviceStream
    \/ Advance
    \/ TimedReadByte
    \/ TimedReadError
    \/ TimedReadTimeout

\* The clock advances, and the loop, whose every read call returns, comes
\* back to its deadline test.  Nothing is assumed of the device.
ReadSpec ==
    /\ ReadInit
    /\ [][ReadNext]_vars
    /\ WF_vars(Advance)
    /\ WF_vars(TimedReadTimeout)

\* ------------------------------------------------------------ properties
\* A step in which send_command makes a write for the running handler.
WritesFrame == tx' # tx /\ tx'.by # "none"

\* A step in which the handler h returns to the event loop.
Completes(h) == pc = "returned" /\ handler = h /\ pc' = "idle"

\* C1: the line send_command returns for a query never contains a byte the
\* device emitted before that query's frame was written.
C1_NoStaleBytes ==
    (pc = "returned" /\ result # None)
        => \A i \in DOMAIN received_bytes : ~received_bytes[i].old

\* C2: the step that completes a disconnect leaves the waveform loop stopped:
\* its timer is not armed, so no loop tick can fire afterwards.
C2_LoopStoppedByDisconnect ==
    [][Completes("disconnect") => ~loop_timer']_vars

\* C3: the step that completes a disconnect leaves the session Disconnected,
\* no transport handle, the poller stopped and the read-back fields at their
\* sentinel values, whatever the outcome of the unlock write.
C3_DisconnectResets ==
    [][Completes("disconnect") =>
          /\ status_text' = "Disconnected"
          /\ OpenHandles' = {}
          /\ ~monitor_timer'
          /\ voltage_reading' = Sentinel
          /\ current_reading' = Sentinel
          /\ power_reading' = 0
          /\ psu_mode' = ""]_vars

\* C3 witness: a session whose poller had been started has been disconnected.
C3_Witness ==
    /\ status_text = "Disconnected"
    /\ shared_port = NoPort
    /\ Len(history_v) = CHART_WIDTH
    /\ ~monitor_timer
    /\ voltage_reading = Sentinel

\* C4: a command frame is written only while no response read is
\* outstanding, whichever handler writes it.
C4_Serialized ==
    [][WritesFrame => pc # "reading"]_vars

\* C4 witness: a UI query is being read while both timers are armed.
C4_Witness ==
    /\ pc = "reading"
    /\ handler = "read_voltage"
    /\ monitor_timer
    /\ loop_timer

\* C5: at most one transport handle exists in every state; a handle appears
\* only in the step that starts a connect and disappears only in the step
\* that completes a disconnect.
C5_SingleHandle ==
    /\ [](Cardinality(OpenHandles) <= 1)
    /\ [][((OpenHandles' \ OpenHandles # {}) =>
               (pc = "idle" /\ handler' = "connect" /\ ~IsConnected))
           /\ ((OpenHandles \ OpenHandles' # {}) => Completes("disconnect"))]_vars

\* C5 witness: connected again after a disconnect, one handle held.
C5_Witness ==
    /\ status_text = "Connected"
    /\ Cardinality(OpenHandles) = 1
    /\ events >= 3

\* C6: a write of a frame without '?' is the command followed by CR LF and
\* send_command returns no-data at once: the read loop is not entered and
\* no byte of the input buffer is consumed.
C6_NonQueryNoRead ==
    [][(WritesFrame /\ ~Contains(tx'.frame, "?")) =>
          /\ Len(tx'.frame) >= 2
          /\ SubSeq(tx'.frame, Len(tx'.frame) - 1, Len(tx'.frame)) = <<"CR", "LF">>
          /\ pc' = "returned"
          /\ result' = None
          /\ received_bytes' = <<>>
          /\ Bytes(rx') = Bytes(rx)]_vars

\* C6 witness: a non-query returned after a failed write, input unread.
C6_Witness ==
    /\ pc = "returned"
    /\ tx.by = "send_command"
    /\ ~Contains(tx.frame, "?")
    /\ ~tx.ok
    /\ rx # <<>>

\* The bytes up to and including the first LF of a stream holding one, and
\* the bytes after it.
FirstLF(st) == CHOOSE k \in DOMAIN st : st[k] = "LF" /\ \A j \in 1..(k - 1) : st[j] # "LF"
LineOf(st) == SubSeq(st, 1, FirstLF(st))
RestOf(st) == SubSeq(st, FirstLF(st) + 1, Len(st))

\* C7: when the bytes delivered to a query hold an LF, the read loop returns
\* on a byte exactly when that byte is the first LF: the result is the
\* stream up to and including its first LF, decoded and trimmed, and every
\* byte after that LF is still in the input buffer.
C7_LineUpToFirstLF ==
    [][LET st == Bytes(received_bytes) \o Bytes(rx)
       IN  (/\ pc = "reading"
            /\ received_bytes' # received_bytes
            /\ Contains(st, "LF")
            /\ (pc' = "returned" \/ Contains(Bytes(received_bytes'), "LF")))
           => /\ pc' = "returned"
              /\ result' = Some(Trim(from_utf8_lossy(LineOf(st))))
              /\ Bytes(received_bytes') = LineOf(st)
              /\ Bytes(rx') = RestOf(st)]_vars

\* C7 witness: a line was returned with surrounding whitespace trimmed and
\* bytes after its LF left in the buffer.
C7_Witness ==
    /\ pc = "returned"
    /\ tx.ok
    /\ result # None
    /\ Contains(Bytes(received_bytes), "LF")
    /\ received_bytes[1].b \in WhiteSpace
    /\ result[1] # <<>>
    /\ rx # <<>>

\* C8: while the poller runs each history buffer holds exactly CHART_WIDTH
\* samples, and the step that completes a tick drops the oldest sample of
\* each buffer and appends one.
C8_HistoryLength ==
    /\ [](Len(history_v) = Len(history_i)
            /\ (monitor_timer => Len(history_v) = CHART_WIDTH))
    /\ [][Completes("poll") =>
             /\ SubSeq(history_v', 1, CHART_WIDTH - 1) = Tail(history_v)
             /\ SubSeq(history_i', 1, CHART_WIDTH - 1) = Tail(history_i)
             /\ Len(history_v') = CHART_WIDTH
             /\ Len(history_i') = CHART_WIDTH]_vars

\* C8 witness: two ticks have run, a successful one and then a failed one.
C8_Witness ==
    /\ monitor_timer
    /\ pc = "idle"
    /\ replies = 1
    /\ Len(history_v) = CHART_WIDTH
    /\ history_v[CHART_WIDTH - 1] = 5000
    /\ history_v[CHART_WIDTH] = 5000
    /\ history_i[CHART_WIDTH] = 1000

\* A run of digits.
IsNumeric(s) == s # <<>> /\ \A i \in DOMAIN s : s[i] \in Digits

\* The reply does not parse into at least two numeric fields.
NotTwoNumericFields(raw_res) ==
    LET parts == Parts(raw_res)
    IN  \/ Len(parts) < 2
        \/ ~IsNumeric(Trim(parts[1]))
        \/ ~IsNumeric(Trim(parts[2]))

\* The tick leaves the displayed readings alone and repeats the newest
\* sample of each history buffer.
RepeatsLastSample ==
    /\ UNCHANGED << voltage_reading, current_reading, power_reading >>
    /\ history_v'[Len(history_v')] = history_v[Len(history_v)]
    /\ history_i'[Len(history_i')] = history_i[Len(history_i)]

\* C9 as stated: a tick with no reply, or with a reply that does not parse
\* into two numeric fields, leaves the readings and repeats the last sample.
C9_FailedTickAsStated ==
    [][(Completes("poll") /\ (result = None \/ NotTwoNumericFields(result[1])))
          => RepeatsLastSample]_vars

\* C9 amended: a tick with no reply, or with a reply that holds no ',' (so
\* it does not split into two fields), leaves the readings and repeats the
\* last sample of each buffer.
C9_FailedTickRepeats ==
    [][(Completes("poll") /\ (result = None \/ ~Contains(result[1], ",")))
          => RepeatsLastSample]_vars

\* C9 witness: the device sent a single line, 5,1, and the history ends in
\* two samples (5.0, 1.0): the second tick failed and repeated the first.
C9_Witness ==
    /\ pc = "idle"
    /\ replies = 1
    /\ Len(history_v) = CHART_WIDTH
    /\ history_v[CHART_WIDTH] = 5000 /\ history_v[CHART_WIDTH - 1] = 5000
    /\ history_i[CHART_WIDTH] = 1000 /\ history_i[CHART_WIDTH - 1] = 1000
    /\ voltage_reading = <<"5">>

\* C10: the session (status, held handle) changes only in a step of the
\* toggle-connection handler; no step of a poll tick, loop tick or UI
\* command changes it, whatever its write or read did.
C10_ErrorsKeepSession ==
    [][(status_text' # status_text \/ shared_port' # shared_port \/ p' # p) =>
          \/ handler \in {"connect", "disconnect"}
          \/ (pc = "idle" /\ ~IsConnected /\ shared_port' = shared_port
                /\ (handler' = "connect" \/ status_text' = "Err"))]_vars

\* C10 witness: send_command has returned into a poll tick after a failed
\* write, and the session is still Connected with its handle held.
C10_Witness ==
    /\ pc = "returned"
    /\ handler = "poll"
    /\ ~tx.ok
    /\ status_text = "Connected"
    /\ shared_port # NoPort

\* A step of one of the six UI command callbacks that share io_scpi.
CommandCallback ==
    \/ on_send_command
    \/ on_apply_voltage
    \/ on_apply_current
    \/ on_read_voltage
    \/ on_read_current
    \/ on_confirm_reset

\* C11: while the status does not read Connected, a UI command callback
\* writes no frame, enters no read, gets no-data from io_scpi and returns at
\* once, and the session keeps its status and holds no transport handle.
C11_DisconnectedNoOp ==
    [][(CommandCallback /\ ~IsConnected) =>
          /\ tx' = tx
          /\ rx' = rx
          /\ pc' = "idle"
          /\ received_bytes' = <<>>
          /\ result' = None
          /\ status_text' = status_text
          /\ OpenHandles' = {}]_vars

\* C11 witness: the first event of a run was apply-current on a Disconnected
\* session: it recorded the limit, wrote nothing and the session is as it was.
C11_Witness ==
    /\ status_text = "Disconnected"
    /\ shared_port = NoPort
    /\ events = 1
    /\ pc = "idle"
    /\ active_current_limit = 1000
    /\ tx = NoWrite

\* C12: a toggle-connection on a session that is not Connected either fails
\* to open (the status becomes the error text, no handle is held, no poller
\* runs, the handler is over) or opens a handle and starts the handshake;
\* the handshake keeps that handle through every query, ends only by
\* storing it and entering Connected, and a query that returned no-data
\* leaves the output flag and the active current limit as they were.
\* Connected is entered in no other way.
C12_ConnectOutcome ==
    [][/\ (ConnectStart /\ handler' # "connect") =>
              /\ status_text' = "Err"
              /\ OpenHandles' = {}
              /\ ~monitor_timer'
              /\ pc' = "idle"
       /\ (ConnectStart /\ handler' = "connect") =>
              /\ p' # NoPort
              /\ status_text' = status_text
       /\ (handler = "connect" /\ handler' = "connect") =>
              /\ p' = p
              /\ p # NoPort
              /\ pc' # "idle"
       /\ (handler = "connect" /\ handler' # "connect") =>
              /\ status_text' = "Connected"
              /\ shared_port' = p
              /\ p # NoPort
       /\ (handler = "connect" /\ pc = "returned" /\ result = None) =>
              /\ is_output_on' = is_output_on
              /\ active_current_limit' = active_current_limit
       /\ (status_text' = "Connected" /\ status_text # "Connected") =>
              handler = "connect"]_vars

\* C12 witness: Connected after a handshake in which every write failed, so
\* no query reached the device and no reply was read.
C12_Witness ==
    /\ status_text = "Connected"
    /\ shared_port # NoPort
    /\ pc = "idle"
    /\ events = 1
    /\ ~owed
    /\ replies = 0

\* The setpoint a tick selects: A when the flipped flag is true, else B.
LoopSetpoint == IF loop_state' THEN loop_v[1] ELSE loop_v[2]

\* The frame of a tick: the set-voltage command with the selected setpoint.
LoopFrame == full_cmd(with_value(SET_VOLT, LoopSetpoint))

\* C13 as stated: every tick of the loop flips the flag and writes one
\* set-voltage frame with the setpoint selected after the flip, reading
\* nothing.
C13_TickAsStated ==
    [][LoopTick =>
          /\ loop_state' = ~loop_state
          /\ tx'.by = "loop"
          /\ tx'.frame = LoopFrame
          /\ pc' = "returned"
          /\ result' = None]_vars

\* C13 amended: every tick flips the flag exactly once (and nothing else
\* flips it); a tick that finds a transport handle writes exactly one frame,
\* the set-voltage command with the setpoint selected after the flip, and
\* reads nothing; a tick that finds no handle writes nothing.  The setpoint
\* of a writing tick differs from the one the tick before it wrote.
C13_TickWritesSelected ==
    [][/\ LoopTick =>
            /\ loop_state' = ~loop_state
            /\ IF shared_port # NoPort
               THEN /\ tx'.by = "loop"
                    /\ tx'.frame = LoopFrame
                    /\ pc' = "returned"
                    /\ result' = None
                    /\ received_bytes' = <<>>
                    /\ Bytes(rx') = Bytes(rx)
                    /\ loop_sent' = Some(LoopSetpoint)
                    /\ (loop_sent # None => loop_sent'[1] # loop_sent[1])
               ELSE /\ tx' = tx
                    /\ pc' = "idle"
       /\ (loop_state' # loop_state) => LoopTick
       /\ (tx' # tx /\ tx'.by = "loop") => LoopTick]_vars

\* C13 witness: the third event of a loop run is its second writing tick;
\* its frame carries the setpoint recorded for it.
C13_Witness ==
    /\ pc = "returned"
    /\ handler = "loop"
    /\ events = 3
    /\ shared_port # NoPort
    /\ loop_sent # None
    /\ tx.frame = full_cmd(with_value(SET_VOLT, loop_sent[1]))

\* The tick that completed read a current of Back(history_i) mA under the
\* limit active_current_limit; Off5 compares their distance with 5% of the
\* limit, in exact arithmetic: negative inside the band, 0 on its edge.
Off5 == Abs(Back(history_i) - active_current_limit) * 20 - active_current_limit

\* C14 as stated, the band read as the closed interval [95%, 105%] of the
\* limit: after a successful tick the mode is empty when the output is off,
\* else CC when the reading is within 5% of the limit and above 10 mA, else
\* CV.
C14_ModeAsStated ==
    pc = "idle" =>
        psu_mode = IF ~is_output_on THEN ""
                   ELSE IF Off5 <= 0 /\ Back(history_i) > 10 THEN "CC"
                   ELSE "CV"

\* C14 amended: the mode is empty when the output is off; else CC when the
\* reading is above 10 mA and less than 5% of the limit away from it, CV
\* when it is at most 10 mA or more than 5% away, and one of the two when it
\* is above 10 mA and exactly 5% away.
C14_ModeClassified ==
    pc = "idle" =>
        IF ~is_output_on THEN psu_mode = ""
        ELSE IF Back(history_i) <= 10 \/ Off5 > 0 THEN psu_mode = "CV"
        ELSE IF Off5 < 0 THEN psu_mode = "CC"
        ELSE psu_mode \in {"CC", "CV"}

\* C14 witness: a tick read 1.050 A under a limit of 1.000 A with the output
\* on, the upper edge of the band, and classified it constant-current.
C14_Witness ==
    /\ pc = "idle"
    /\ is_output_on
    /\ active_current_limit = 1000
    /\ current_reading = <<"1", ".", "0", "5", "0">>
    /\ Back(history_i) = 1050
    /\ psu_mode = "CC"

\* A step in which trigger_auto_poll starts the monitor timer: the end of
\* a connect, or auto-refresh being enabled, with the timer armed after it.
StartsPoller ==
    /\ monitor_timer'
    /\ \/ on_toggle_auto_refresh
       \/ (handler = "connect" /\ pc' = "idle")

\* The text is a non-negative integer (digits only) worth 200 or more.
IsIntegerFrom200(text) ==
    /\ text # <<>>
    /\ \A k \in DOMAIN text : text[k] \in Digits
    /\ ~NumLess(StripZeros(text), <<"2", "0", "0">>)

\* C15 as stated: the interval the monitor timer is started with is at
\* least 200 ms, and is the configured value whenever the text in the box
\* is an integer of 200 or more.
C15_IntervalAsStated ==
    [][StartsPoller =>
          /\ interval_ms' # None
          /\ ~NumLess(interval_ms'[1], <<"2", "0", "0">>)
          /\ (IsIntegerFrom200(polling_interval) =>
                 interval_ms'[1] = StripZeros(polling_interval))]_vars

\* C15 amended: the interval the monitor timer is started with is at least
\* 200 ms; it is the configured value whenever the text is an integer from
\* 200 to u64::MAX, and 200 ms for an integer above u64::MAX.
C15_IntervalClamped ==
    [][StartsPoller =>
          /\ interval_ms' # None
          /\ ~NumLess(interval_ms'[1], <<"2", "0", "0">>)
          /\ (IsIntegerFrom200(polling_interval) =>
                 interval_ms'[1] = IF NumLess(U64_MAX, StripZeros(polling_interval))
                                   THEN <<"2", "0", "0">>
                                   ELSE StripZeros(polling_interval))]_vars

\* C15 witness: the poller runs at the interval in the box, the largest
\* one a u64 holds.
C15_Witness ==
    /\ monitor_timer
    /\ polling_interval = U64_MAX
    /\ interval_ms = Some(U64_MAX)
    /\ history_v = Zeros

\* C16: the step that starts a disconnect stops the poller and writes the
\* unlock frame on the handle still held; until the handle is destroyed the
\* poller stays stopped and no further frame is written; the step that
\* destroys the handle finds the unlock frame as the last write.
C16_DisconnectOrder ==
    [][/\ (pc = "idle" /\ handler' = "disconnect") =>
              /\ ~monitor_timer'
              /\ tx'.by = "disconnect"
              /\ tx'.frame = full_cmd(UNLOCK)
              /\ shared_port' = shared_port
              /\ shared_port # NoPort
       /\ (handler = "disconnect") =>
              /\ ~monitor_timer
              /\ ~monitor_timer'
              /\ ~WritesFrame
       /\ (shared_port # NoPort /\ shared_port' = NoPort) =>
              /\ handler = "disconnect"
              /\ tx.by = "disconnect"
              /\ tx.frame = full_cmd(UNLOCK)]_vars

\* C16 witness: a session whose poller had run is being disconnected: the
\* unlock frame is written, the poller is stopped, the handle still held.
C16_Witness ==
    /\ pc = "returned"
    /\ handler = "disconnect"
    /\ tx.frame = full_cmd(UNLOCK)
    /\ history_v # <<>>
    /\ history_v[CHART_WIDTH] = 5000
    /\ ~monitor_timer
    /\ shared_port # NoPort

\* C17: when read_serial_response stops, it returns no-data exactly when no
\* byte was accumulated, and otherwise the accumulated bytes decoded and
\* trimmed, whether or not a line feed arrived; a byte that stops the read
\* is a line feed, and a carriage return leaves the read going.
C17_ReadResult ==
    [][(pc = "reading") =>
          /\ (pc' = "returned") =>
                 /\ (result' = None) <=> (received_bytes' = <<>>)
                 /\ (received_bytes' # <<>>) =>
                        result' = Some(Trim(from_utf8_lossy(Bytes(received_bytes'))))
                 /\ (received_bytes' # received_bytes) =>
                        received_bytes'[Len(received_bytes')].b = "LF"
          /\ (/\ received_bytes' # received_bytes
              /\ received_bytes'[Len(received_bytes')].b = "CR") =>
                 /\ pc' = "reading"
                 /\ result' = result]_vars

\* C17 witness: the read stopped after a carriage return and before the
\* line feed; the partial line is returned trimmed.
C17_Witness ==
    /\ pc = "returned"
    /\ Bytes(received_bytes) = <<"5", ",", "1", "CR">>
    /\ result = Some(<<"5", ",", "1">>)

\* C18: every exchange terminates: a handler that has entered
\* read_serial_response gets its result, whatever the device does, and a
\* command that is not read back returns in the step that writes it.
C18_ExchangeTerminates ==
    /\ [][(pc = "idle" /\ tx'.by # "none" /\ ~(tx'.ok /\ Contains(tx'.frame, "?")))
              => pc' = "returned"]_vars
    /\ (pc = "reading") ~> (pc = "returned")

\* C18 witness: the device streamed bytes without a line feed until the
\* deadline passed, and the exchange returned what had been accumulated.
C18_Witness ==
    /\ pc = "returned"
    /\ handler = "send_command"
    /\ Expired
    /\ Len(received_bytes) = MaxStream
    /\ \A k \in DOMAIN received_bytes : received_bytes[k].b # "LF"
    /\ result # None

\* C19: whenever the event loop is between callbacks, the status reads
\* "Connected" exactly when the shared handle is present; a failed open
\* ends with an error text and no handle, and from an error text no step
\* is a disconnect: the toggle opens the port again.
C19_StatusMatchesHandle ==
    /\ [](pc = "idle" => (IsConnected <=> shared_port # NoPort))
    /\ [][/\ (status_text # "Err" /\ status_text' = "Err") =>
                 /\ pc = "idle" /\ pc' = "idle"
                 /\ shared_port' = NoPort
                 /\ OpenHandles' = {}
          /\ (pc = "idle" /\ status_text = "Err") =>
                 /\ handler' # "disconnect"
                 /\ status_text' = "Err"
                 /\ shared_port' = NoPort
                 /\ ((p' # NoPort) => (handler' = "connect"))]_vars

\* C19 witness: after a failed open the toggle was clicked again and the
\* handshake of a connect attempt is under way on a newly opened port.
C19_Witness ==
    /\ status_text = "Err"
    /\ handler = "connect"
    /\ pc = "reading"
    /\ p # NoPort
    /\ shared_port = NoPort
    /\ events = 2

\* C20: the poller runs only in a Connected session that holds its handle;
\* it is started only by the step that completes a connect with
\* auto-refresh enabled or by enabling auto-refresh while Connected, and
\* the step that starts a disconnect stops it; while no handle is held no
\* poll tick runs and the history buffers are at most reset, never advanced.
C20_PollerOnlyConnected ==
    /\ [](monitor_timer => (IsConnected /\ shared_port # NoPort))
    /\ [][/\ (~monitor_timer /\ monitor_timer') =>
                 /\ enable_auto_refresh'
                 /\ IsConnected'
                 /\ \/ handler = "connect" /\ pc' = "idle" /\ ~IsConnected
                    \/ pc = "idle" /\ IsConnected /\ events' = events + 1
          /\ (pc = "idle" /\ ~IsConnected /\ enable_auto_refresh' # enable_auto_refresh) =>
                 /\ ~monitor_timer'
                 /\ history_v' = history_v
                 /\ history_i' = history_i
          /\ (pc = "idle" /\ handler' = "disconnect") => ~monitor_timer'
          /\ (IsConnected /\ ~IsConnected') => ~monitor_timer'
          /\ (shared_port = NoPort) =>
                 /\ handler' # "poll"
                 /\ history_v' \in {history_v, Zeros}
                 /\ history_i' \in {history_i, Zeros}
          /\ (handler = "poll" \/ handler' = "poll") =>
                 (shared_port # NoPort /\ monitor_timer)]_vars

\* C20 witness: a tick of the poller has run on the held handle of a
\* Connected session and has advanced the history.
C20_Witness ==
    /\ pc = "idle"
    /\ monitor_timer
    /\ IsConnected
    /\ shared_port # NoPort
    /\ history_v # <<>>
    /\ history_v[CHART_WIDTH] = 5000

====
